---- MODULE Spec2Model ----
(***************************************************************************)
(* Expiring-membership sets (expiry-map): the self-indexing mutable heap   *)
(* MutHeap (heap.rs), the three cleanup strategies built on a hash index   *)
(* plus a backing structure (mut_heap_cleanup.rs, tree_cleanup.rs,         *)
(* heap_cleanup.rs), the index-free Redactor (redactor.rs) and the fake    *)
(* clock that drives them (fake_clock.rs); and the expiring maps of lib.rs *)
(* (MonotonicImpl, IncrementalImpl) on its own, non-advancing FakeClock.   *)
(*                                                                         *)
(* Instants and Durations are natural numbers counted in clock quanta      *)
(* (one quantum = the FakeClock's auto-advance of 1 ms).  Vec indices are  *)
(* the code's 0-based indices; a Vec is a TLA+ sequence read through At.   *)
(***************************************************************************)
EXTENDS Integers, Sequences, FiniteSets

VARIABLES
    heap,        \* a MutHeap<Expiration> driven directly: [items, cells]
    handles,     \* the Handles the caller of `heap` holds (live or stale)
    popped,      \* ghost: the Handles whose item pop_max has taken out
    heap_panic,  \* "none", or the panic that ended the caller of `heap`
    heap_last,   \* ghost: what the last operation on `heap` did
    mh,          \* mut_heap_cleanup::HeapCleanup {clock, expiration_index, expiration_times}
    mh_panic,    \* "none", or the panic that ended the run on mh
    mh_latest,   \* ghost: id -> expiry of the most recent mh.insert (NoTime: never)
    mh_obs,      \* ghost: the operation mh was just given
    tr,          \* tree_cleanup::TreeCleanup {clock, expiration_times, expiration_index}
    tr_panic,    \* "none", or the panic that ended the run on tr
    tr_latest,   \* ghost: id -> expiry of the most recent tr.insert
    tr_obs,      \* ghost: the operation tr was just given
    bh,          \* heap_cleanup::HeapCleanup {clock, expiration_times, expiration_index}
    bh_latest,   \* ghost: id -> expiry of the most recent bh.insert
    bh_obs,      \* ghost: the operation bh was just given
    rd,          \* redactor::Redactor {clock, expiration_times}
    rd_latest,   \* ghost: id -> expiry of the most recent rd.insert
    rd_obs,      \* ghost: the operation rd was just given
    gone,        \* ghost: per set, id -> how many contains(id) returned false
                 \* since the last insert(id) (counted up to 2)
    mono,        \* lib.rs MonotonicImpl {key_map, clock}
    incr,        \* lib.rs IncrementalImpl {key_map, expiry_map, clock}
    lib_panic,   \* "none", or the panic that ended the run on incr
    lib_latest,  \* ghost: key -> the Wrapper of the most recent put
    lib_obs      \* ghost: the operation mono and incr were just given

heap_vars == <<heap, handles, popped, heap_panic, heap_last>>
mh_vars == <<mh, mh_panic, mh_latest, mh_obs>>
tr_vars == <<tr, tr_panic, tr_latest, tr_obs>>
bh_vars == <<bh, bh_latest, bh_obs>>
rd_vars == <<rd, rd_latest, rd_obs>>
lib_vars == <<mono, incr, lib_panic, lib_latest, lib_obs>>
vars == <<heap_vars, mh_vars, tr_vars, bh_vars, rd_vars, gone, lib_vars>>

(***************************************************************************)
(* Bounds of the model.                                                    *)
(***************************************************************************)
\* item ids are 0..MaxId
MaxId == 2
\* TTLs and clock advances are 1..MaxTtl quanta
MaxTtl == 2
\* operations stop once a clock has reached MaxClock
MaxClock == 5
\* the caller of the directly driven heap inserts at most MaxHandles items
MaxHandles == 4
\* priorities (times) of the items of the directly driven heap are 0..MaxKey
MaxKey == 2
\* when the four sets run side by side the item ids are 0..MaxAllId
MaxAllId == 1

Ids == 0..MaxId
Ttls == 1..MaxTtl
Keys == 0..MaxKey
AllIds == 0..MaxAllId

\* "no Instant": an id that was never inserted, an Option that is None
NoTime == -1

(***************************************************************************)
(* FakeClock (fake_clock.rs)                                               *)
(***************************************************************************)
\* FakeClock::default: auto_advance = Duration::from_millis(1)
AutoAdvance == 1

\* FakeClock::default: cur = Instant::now(), taken as the origin
ClockDefault == 0

\* a now() that returns the cursor without advancing it
NowNoAdvance(cur) == cur

\* FakeClock::now: self.cur += self.auto_advance; self.cur
\* (the value is both the new cursor and the Instant returned)
now(cur) == cur + AutoAdvance

\* FakeClock::advance: self.cur += duration
advance(cur, duration) == cur + duration

(***************************************************************************)
(* Expiration and its ordering (mut_heap_cleanup.rs, heap_cleanup.rs)      *)
(***************************************************************************)
Expiration(time, item) == [time |-> time, item |-> item]

\* Option<Expiration>::None
NoExpiration == Expiration(NoTime, NoTime)

\* Expiration::cmp: self.time.cmp(&other.time).reverse(); a < b
ExpLt(a, b) == a.time > b.time

\* a > b under Expiration::cmp
ExpGt(a, b) == a.time < b.time

(***************************************************************************)
(* MutHeap (heap.rs).  A heap value is [items, cells]: items is the Vec of *)
(* Wrappers [item, handle], where handle names the wrapper's Rc<Cell>, and *)
(* cells maps every Rc that is still alive to the usize it holds.  A       *)
(* Handle is the name of an Rc; its Weak upgrades iff the Rc is alive.     *)
(***************************************************************************)
EmptyHeap == [items |-> <<>>, cells |-> <<>>]

At(items, idx) == items[idx + 1]

HeapLen(h) == Len(h.items)

\* the body of a percolate swap: both cells are set, then the slots swapped
SwapSlots(h, idx, other) ==
    LET a == At(h.items, idx)
        b == At(h.items, other)
        c1 == [h.cells EXCEPT ![a.handle] = other]
        c2 == [c1 EXCEPT ![b.handle] = idx]
    IN [items |-> [h.items EXCEPT ![idx + 1] = b, ![other + 1] = a],
        cells |-> c2]

\* the parent index percolate_up uses
ParentIdx(idx) == idx \div 2

RECURSIVE percolate_up(_, _)
percolate_up(h, idx) ==
    IF idx > 0
    THEN LET lowest == IF ExpLt(At(h.items, ParentIdx(idx)).item, At(h.items, idx).item)
                       THEN ParentIdx(idx) ELSE idx
         IN IF lowest = idx THEN h
            ELSE percolate_up(SwapSlots(h, idx, lowest), lowest)
    ELSE h

\* percolate_down that forgets the child at 2 * idx + 1
RECURSIVE PercolateDownOneChild(_, _)
PercolateDownOneChild(h, idx) ==
    IF 2 * idx < HeapLen(h)
    THEN LET highest == IF ExpGt(At(h.items, 2 * idx).item, At(h.items, idx).item)
                        THEN 2 * idx ELSE idx
         IN IF highest = idx THEN h
            ELSE PercolateDownOneChild(SwapSlots(h, idx, highest), highest)
    ELSE h

RECURSIVE percolate_down(_, _)
percolate_down(h, idx) ==
    IF 2 * idx < HeapLen(h)
    THEN LET h1 == IF ExpGt(At(h.items, 2 * idx).item, At(h.items, idx).item)
                   THEN 2 * idx ELSE idx
             highest == IF /\ 2 * idx + 1 < HeapLen(h)
                           /\ ExpGt(At(h.items, 2 * idx + 1).item, At(h.items, h1).item)
                        THEN 2 * idx + 1 ELSE h1
         IN IF highest = idx THEN h
            ELSE percolate_down(SwapSlots(h, idx, highest), highest)
    ELSE h

\* MutHeap::insert; rc names the Rc allocated for the new wrapper
heap_insert(h, item, rc) ==
    LET idx == HeapLen(h)
        pushed == [items |-> Append(h.items, [item |-> item, handle |-> rc]),
                   cells |-> [c \in DOMAIN h.cells \cup {rc} |->
                                 IF c = rc THEN idx ELSE h.cells[c]]]
    IN percolate_up(pushed, idx)

\* a pop_max whose wrapper's Rc is kept alive
DropRcLeaks(cells, rc) == cells

\* the Rc of the wrapper pop_max takes out is dropped with it
DropRc(cells, rc) == [c \in DOMAIN cells \ {rc} |-> cells[c]]

\* a pop_max that swaps the last wrapper into the root and leaves it there
HeapPopMaxNoPercolate(h) ==
    IF h.items = <<>> THEN h
    ELSE LET n == HeapLen(h)
             tmp == At(h.items, n - 1)
             rest == SubSeq(h.items, 1, n - 1)
         IN IF rest = <<>>
            THEN [items |-> rest, cells |-> DropRc(h.cells, tmp.handle)]
            ELSE [items |-> [rest EXCEPT ![1] = tmp],
                  cells |-> DropRc(h.cells, At(rest, 0).handle)]

\* MutHeap::pop_max, the heap it leaves
heap_pop_max(h) ==
    IF h.items = <<>> THEN h
    ELSE LET n == HeapLen(h)
             tmp == At(h.items, n - 1)
             rest == SubSeq(h.items, 1, n - 1)
         IN IF rest = <<>>
            THEN [items |-> rest, cells |-> DropRc(h.cells, tmp.handle)]
            ELSE LET root == At(rest, 0)
                     swapped == [items |-> [rest EXCEPT ![1] = tmp],
                                 cells |-> DropRc(h.cells, root.handle)]
                 IN percolate_down(swapped, 0)

\* MutHeap::pop_max, the Option<T> it returns (NoExpiration for None)
heap_pop_max_ret(h) == IF h.items = <<>> THEN NoExpiration ELSE At(h.items, 0).item

\* MutHeap::peek_max (NoExpiration for None)
heap_peek_max(h) == IF h.items = <<>> THEN NoExpiration ELSE At(h.items, 0).item

\* Weak::upgrade on a Handle: the Rc is still alive
Upgrades(h, handle) == handle \in DOMAIN h.cells

\* what increment/decrement do before the mutator runs:
\* "stale" (expect fails), "oob" (self.items[idx] is out of bounds) or "ok"
Resolve(h, handle) ==
    IF ~Upgrades(h, handle) THEN "stale"
    ELSE IF h.cells[handle] >= HeapLen(h) THEN "oob"
    ELSE "ok"

\* the mutators the callers pass: f = [kind, time]
\*   "earlier": if time < x.time { x.time = time }
\*   "later":   if time > x.time { x.time = time }
Mutate(f, x) ==
    IF f.kind = "earlier"
    THEN (IF f.time < x.time THEN [x EXCEPT !.time = f.time] ELSE x)
    ELSE (IF f.time > x.time THEN [x EXCEPT !.time = f.time] ELSE x)

MutateAt(h, idx, f) ==
    [h EXCEPT !.items[idx + 1].item = Mutate(f, At(h.items, idx).item)]

\* MutHeap::increment once the handle resolved
heap_increment(h, handle, f) ==
    LET idx == h.cells[handle]
    IN percolate_up(MutateAt(h, idx, f), idx)

\* MutHeap::decrement once the handle resolved
heap_decrement(h, handle, f) ==
    LET idx == h.cells[handle]
    IN percolate_down(MutateAt(h, idx, f), idx)

\* the Rc a new wrapper gets: one no live Rc and no Weak in `held` names
FreshRc(h, held) ==
    CHOOSE c \in 0..(Cardinality(DOMAIN h.cells \cup held)) :
        c \notin (DOMAIN h.cells \cup held)

(***************************************************************************)
(* A caller driving a MutHeap directly, as the tests of heap.rs do: it     *)
(* keeps every Handle insert returned and may use any of them, also after  *)
(* the item was popped.  A panic ends the caller.                          *)
(***************************************************************************)
NoHandle == -1

HeapInit ==
    /\ heap = EmptyHeap
    /\ handles = {}
    /\ popped = {}
    /\ heap_panic = "none"
    /\ heap_last = [op |-> "new", handle |-> NoHandle, target |-> NoHandle,
                    ret |-> NoExpiration]

\* heap.insert(Expiration { time, item: 0 }): the heap never reads the item id
Insert(time) ==
    /\ heap_panic = "none"
    /\ Cardinality(handles) < MaxHandles
    /\ LET rc == FreshRc(heap, handles)
       IN /\ heap' = heap_insert(heap, Expiration(time, 0), rc)
          /\ handles' = handles \cup {rc}
          /\ heap_last' = [op |-> "insert", handle |-> rc, target |-> rc,
                           ret |-> NoExpiration]
    /\ UNCHANGED <<popped, heap_panic>>

\* heap.pop_max()
PopMax ==
    /\ heap_panic = "none"
    /\ heap' = heap_pop_max(heap)
    /\ popped' = IF heap.items = <<>> THEN popped
                 ELSE popped \cup {At(heap.items, 0).handle}
    /\ heap_last' = [op |-> "pop_max", handle |-> NoHandle,
                     target |-> IF heap.items = <<>> THEN NoHandle
                                ELSE At(heap.items, 0).handle,
                     ret |-> heap_pop_max_ret(heap)]
    /\ UNCHANGED <<handles, heap_panic>>

\* the wrapper a resolved handle's index names
TargetOf(h, handle) == At(h.items, h.cells[handle]).handle

\* heap.increment(&handle, f), f a mutator that never lowers the priority
Increment(handle, time) ==
    /\ heap_panic = "none"
    /\ handle \in handles
    /\ LET f == [kind |-> "earlier", time |-> time]
           r == Resolve(heap, handle)
       IN IF r = "ok"
          THEN /\ heap' = heap_increment(heap, handle, f)
               /\ heap_last' = [op |-> "increment", handle |-> handle,
                                target |-> TargetOf(heap, handle),
                                ret |-> NoExpiration]
               /\ UNCHANGED heap_panic
          ELSE /\ heap_panic' = r
               /\ heap_last' = [op |-> "increment", handle |-> handle,
                                target |-> NoHandle, ret |-> NoExpiration]
               /\ UNCHANGED heap
    /\ UNCHANGED <<handles, popped>>

\* heap.decrement(&handle, f), f a mutator that never raises the priority
Decrement(handle, time) ==
    /\ heap_panic = "none"
    /\ handle \in handles
    /\ LET f == [kind |-> "later", time |-> time]
           r == Resolve(heap, handle)
       IN IF r = "ok"
          THEN /\ heap' = heap_decrement(heap, handle, f)
               /\ heap_last' = [op |-> "decrement", handle |-> handle,
                                target |-> TargetOf(heap, handle),
                                ret |-> NoExpiration]
               /\ UNCHANGED heap_panic
          ELSE /\ heap_panic' = r
               /\ heap_last' = [op |-> "decrement", handle |-> handle,
                                target |-> NoHandle, ret |-> NoExpiration]
               /\ UNCHANGED heap
    /\ UNCHANGED <<handles, popped>>

(***************************************************************************)
(* HashMap helpers: a map is a function whose domain is its key set.       *)
(***************************************************************************)
EmptyMap == <<>>

MapPut(m, k, v) == [x \in DOMAIN m \cup {k} |-> IF x = k THEN v ELSE m[x]]

MapRemove(m, k) == [x \in DOMAIN m \ {k} |-> m[x]]

\* the ghost map of an id's most recent expiry
NeverInserted == [x \in Ids |-> NoTime]

\* the ghost record of the operation a set was just given:
\*   contains: ret is the bool returned, expiry the id's most recent expiry
\*             when the call was made (NoTime: never inserted)
\*   insert:   ret tells whether the id was in expiration_times, expiry is
\*             the expiry the call computed
\* now is the clock reading the call took; swept is the number of records
\* a contains took out of the backing structure; prev is the expiry the
\* insert before this one gave the id (NoTime: none); by is the duration an
\* advance was given
NoObs ==
    [op |-> "new", item |-> NoTime, now |-> NoTime, ret |-> FALSE,
     expiry |-> NoTime, swept |-> 0, prev |-> NoTime, by |-> 0]

ObsContains(item, t, ret, latest, swept) ==
    [op |-> "contains", item |-> item, now |-> t, ret |-> ret,
     expiry |-> latest[item], swept |-> swept, prev |-> NoTime, by |-> 0]

ObsInsert(item, t, had, expiry, prev) ==
    [op |-> "insert", item |-> item, now |-> t, ret |-> had,
     expiry |-> expiry, swept |-> 0, prev |-> prev, by |-> 0]

ObsAdvance(duration) == [NoObs EXCEPT !.op = "advance", !.by = duration]

(***************************************************************************)
(* mut_heap_cleanup.rs: HeapCleanup over a MutHeap<Expiration>             *)
(***************************************************************************)
MhDefault ==
    [clock |-> ClockDefault, expiration_index |-> EmptyHeap,
     expiration_times |-> EmptyMap]

\* a cleanup that stops after its first pop
MhCleanOnce(self, threshold) ==
    LET exp == heap_peek_max(self.expiration_index)
    IN IF exp # NoExpiration /\ exp.time <= threshold
       THEN [self EXCEPT
                !.expiration_times = MapRemove(self.expiration_times, exp.item),
                !.expiration_index = heap_pop_max(self.expiration_index)]
       ELSE self

\* HeapCleanup::incremental_clean
RECURSIVE mh_incremental_clean(_, _)
mh_incremental_clean(self, threshold) ==
    LET exp == heap_peek_max(self.expiration_index)
    IN IF exp # NoExpiration /\ exp.time <= threshold
       THEN mh_incremental_clean(
                [self EXCEPT
                    !.expiration_times = MapRemove(self.expiration_times, exp.item),
                    !.expiration_index = heap_pop_max(self.expiration_index)],
                threshold)
       ELSE self

\* the Occupied arm of insert: decrement, then increment, through the
\* handle the hash index holds; [self, panic]
MhRefresh(self, item, time) ==
    LET handle == self.expiration_times[item]
        r1 == Resolve(self.expiration_index, handle)
        dec == heap_decrement(self.expiration_index, handle,
                              [kind |-> "earlier", time |-> time])
        r2 == Resolve(dec, handle)
        inc == heap_increment(dec, handle, [kind |-> "later", time |-> time])
    IN IF r1 # "ok" THEN [self |-> self, panic |-> r1]
       ELSE IF r2 # "ok"
            THEN [self |-> [self EXCEPT !.expiration_index = dec], panic |-> r2]
       ELSE [self |-> [self EXCEPT !.expiration_index = inc], panic |-> "none"]

\* the Vacant arm of insert
MhInsertNew(self, item, time) ==
    LET handle == FreshRc(self.expiration_index,
                          {self.expiration_times[x] : x \in DOMAIN self.expiration_times})
    IN [self |-> [self EXCEPT
                    !.expiration_index =
                        heap_insert(self.expiration_index, Expiration(time, item), handle),
                    !.expiration_times = MapPut(self.expiration_times, item, handle)],
        panic |-> "none"]

\* an insert that takes the Vacant arm also for an id it already holds
MhInsertAlwaysVacant(self, item, duration) ==
    LET t == now(self.clock)
    IN MhInsertNew([self EXCEPT !.clock = t], item, t + duration)

\* HeapCleanup::insert; [self, panic]
mh_insert(self, item, duration) ==
    LET t == now(self.clock)
        time == t + duration
        s1 == [self EXCEPT !.clock = t]
    IN IF item \in DOMAIN s1.expiration_times
       THEN MhRefresh(s1, item, time)
       ELSE MhInsertNew(s1, item, time)

\* HeapCleanup::contains, the state it leaves
mh_contains(self, item) ==
    LET t == now(self.clock)
    IN mh_incremental_clean([self EXCEPT !.clock = t], t)

\* HeapCleanup::contains, the bool it returns
mh_contains_ret(self, item) ==
    item \in DOMAIN mh_contains(self, item).expiration_times

MhInit ==
    /\ mh = MhDefault
    /\ mh_panic = "none"
    /\ mh_latest = NeverInserted
    /\ mh_obs = NoObs

\* m.insert(item, duration) on the MutHeap-backed set
MhInsert(item, duration) ==
    IF mh_panic # "none" THEN UNCHANGED mh_vars
    ELSE LET r == mh_insert(mh, item, duration)
         IN /\ mh' = r.self
            /\ mh_panic' = r.panic
            /\ mh_latest' = [mh_latest EXCEPT ![item] = now(mh.clock) + duration]
            /\ mh_obs' = ObsInsert(item, now(mh.clock),
                                    item \in DOMAIN mh.expiration_times,
                                    now(mh.clock) + duration, mh_latest[item])

\* m.contains(item) on the MutHeap-backed set
MhContains(item) ==
    IF mh_panic # "none" THEN UNCHANGED mh_vars
    ELSE /\ mh' = mh_contains(mh, item)
         /\ mh_obs' = ObsContains(item, now(mh.clock), mh_contains_ret(mh, item), mh_latest,
                                  HeapLen(mh.expiration_index)
                                  - HeapLen(mh_contains(mh, item).expiration_index))
         /\ UNCHANGED <<mh_panic, mh_latest>>

\* m.clock.advance(duration) on the MutHeap-backed set
MhAdvance(duration) ==
    IF mh_panic # "none" THEN UNCHANGED mh_vars
    ELSE /\ mh' = [mh EXCEPT !.clock = advance(mh.clock, duration)]
         /\ mh_obs' = ObsAdvance(duration)
         /\ UNCHANGED <<mh_panic, mh_latest>>

(***************************************************************************)
(* tree_cleanup.rs: TreeCleanup over a BTreeMap<Instant, HashSet<u64>>     *)
(***************************************************************************)
\* TreeCleanup::new
TrNew ==
    [clock |-> ClockDefault, expiration_times |-> EmptyMap,
     expiration_index |-> EmptyMap]

\* BTreeMap::split_off(&key): the part of the map at or after key
split_off(m, key) == [k \in {x \in DOMAIN m : x >= key} |-> m[k]]

\* what split_off leaves in the map it is called on
SplitKeeps(m, key) == [k \in {x \in DOMAIN m : x < key} |-> m[k]]

\* TreeCleanup::incremental_clean
tr_incremental_clean(self, threshold) ==
    LET tmp == split_off(self.expiration_index, threshold)
        kept == SplitKeeps(self.expiration_index, threshold)
        \* mem::swap: the index keeps the split-off part, tmp the rest
        index == tmp
        detached == kept
        ids == UNION {detached[k] : k \in DOMAIN detached}
    IN [self EXCEPT
            !.expiration_index = index,
            !.expiration_times =
                [x \in DOMAIN self.expiration_times \ ids |-> self.expiration_times[x]]]

\* an insert that leaves the item in its old bucket
TrUnregisterKeeps(index, prev, item) == index

\* the `if let Some(prev)` arm of insert: take item out of its old bucket
TrUnregister(index, prev, item) ==
    LET ids_to_expire == index[prev] \ {item}
    IN IF Cardinality(ids_to_expire) = 0
       THEN MapRemove(index, prev)
       ELSE [index EXCEPT ![prev] = ids_to_expire]

\* .entry(expiry).or_insert_with(HashSet::new).insert(item)
TrRegister(index, expiry, item) ==
    MapPut(index, expiry,
           (IF expiry \in DOMAIN index THEN index[expiry] ELSE {}) \cup {item})

\* TreeCleanup::insert; [self, panic]
tr_insert(self, item, duration) ==
    LET t == now(self.clock)
        expiry == t + duration
        had == item \in DOMAIN self.expiration_times
        prev == self.expiration_times[item]
        s1 == [self EXCEPT !.clock = t,
                           !.expiration_times = MapPut(self.expiration_times, item, expiry)]
    IN IF had /\ prev \notin DOMAIN self.expiration_index
       THEN [self |-> s1, panic |-> "expect"]
       ELSE LET index == IF had THEN TrUnregister(self.expiration_index, prev, item)
                         ELSE self.expiration_index
            IN [self |-> [s1 EXCEPT !.expiration_index = TrRegister(index, expiry, item)],
                panic |-> "none"]

\* TreeCleanup::contains, the state it leaves
tr_contains(self, item) ==
    LET t == now(self.clock)
    IN tr_incremental_clean([self EXCEPT !.clock = t], t)

\* TreeCleanup::contains, the bool it returns
tr_contains_ret(self, item) ==
    item \in DOMAIN tr_contains(self, item).expiration_times

TrInit ==
    /\ tr = TrNew
    /\ tr_panic = "none"
    /\ tr_latest = NeverInserted
    /\ tr_obs = NoObs

\* m.insert(item, duration) on the tree-backed set
TrInsert(item, duration) ==
    IF tr_panic # "none" THEN UNCHANGED tr_vars
    ELSE LET r == tr_insert(tr, item, duration)
         IN /\ tr' = r.self
            /\ tr_panic' = r.panic
            /\ tr_latest' = [tr_latest EXCEPT ![item] = now(tr.clock) + duration]
            /\ tr_obs' = ObsInsert(item, now(tr.clock),
                                    item \in DOMAIN tr.expiration_times,
                                    now(tr.clock) + duration, tr_latest[item])

\* m.contains(item) on the tree-backed set
TrContains(item) ==
    IF tr_panic # "none" THEN UNCHANGED tr_vars
    ELSE /\ tr' = tr_contains(tr, item)
         /\ tr_obs' = ObsContains(item, now(tr.clock), tr_contains_ret(tr, item), tr_latest,
                                  Cardinality(DOMAIN tr.expiration_times)
                                  - Cardinality(DOMAIN tr_contains(tr, item).expiration_times))
         /\ UNCHANGED <<tr_panic, tr_latest>>

\* m.clock.advance(duration) on the tree-backed set
TrAdvance(duration) ==
    IF tr_panic # "none" THEN UNCHANGED tr_vars
    ELSE /\ tr' = [tr EXCEPT !.clock = advance(tr.clock, duration)]
         /\ tr_obs' = ObsAdvance(duration)
         /\ UNCHANGED <<tr_panic, tr_latest>>

(***************************************************************************)
(* heap_cleanup.rs: HeapCleanup over std's BinaryHeap<Expiration>.  The    *)
(* BinaryHeap is its Vec, a 0-based array read through At, with std's      *)
(* sift_up and sift_down_to_bottom: among records of equal time, which one *)
(* peek and pop give depends on where pushes and pops have left them.      *)
(***************************************************************************)
BhDefault ==
    [clock |-> ClockDefault, expiration_times |-> EmptyMap,
     expiration_index |-> <<>>]

\* the Vec with the elements at idx and other exchanged
BhSwap(data, idx, other) ==
    [data EXCEPT ![idx + 1] = At(data, other), ![other + 1] = At(data, idx)]

\* BinaryHeap::sift_up(start, pos): the element at pos moves up while it
\* compares greater than its parent at (pos - 1) / 2
RECURSIVE bh_sift_up(_, _, _)
bh_sift_up(data, start, pos) ==
    IF pos > start
    THEN LET parent == (pos - 1) \div 2
         IN IF ~ExpGt(At(data, pos), At(data, parent))
            THEN data
            ELSE bh_sift_up(BhSwap(data, pos, parent), start, parent)
    ELSE data

\* the descent of BinaryHeap::sift_down_to_bottom: the element at pos moves
\* down to a leaf, each time under the greater child, the right one when
\* the two compare equal; [data, pos], pos being where it ends
RECURSIVE BhDescend(_, _)
BhDescend(data, pos) ==
    LET end == Len(data)
        child == 2 * pos + 1
    IN IF end >= 2 /\ child <= end - 2
       THEN LET c == IF ~ExpGt(At(data, child), At(data, child + 1))
                     THEN child + 1 ELSE child
            IN BhDescend(BhSwap(data, pos, c), c)
       ELSE IF child = end - 1
            THEN [data |-> BhSwap(data, pos, child), pos |-> child]
       ELSE [data |-> data, pos |-> pos]

\* BinaryHeap::sift_down_to_bottom(pos): down to a leaf, then sift_up
bh_sift_down_to_bottom(data, pos) ==
    LET r == BhDescend(data, pos)
    IN bh_sift_up(r.data, pos, r.pos)

\* BinaryHeap::peek (NoExpiration for None)
bh_peek(index) ==
    IF index = <<>> THEN NoExpiration ELSE At(index, 0)

\* BinaryHeap::pop, the heap it leaves: the last element replaces the root
\* and is sifted down
bh_pop(index) ==
    IF index = <<>> THEN index
    ELSE LET n == Len(index)
             item == At(index, n - 1)
             rest == SubSeq(index, 1, n - 1)
         IN IF rest = <<>> THEN rest
            ELSE bh_sift_down_to_bottom([rest EXCEPT ![1] = item], 0)

\* BinaryHeap::push
bh_push(index, e) == bh_sift_up(Append(index, e), 0, Len(index))

\* a cleanup that forgets the id of every record it pops
BhForgetAlways(times, exp, threshold) == MapRemove(times, exp.item)

\* the hash-index half of one turn of incremental_clean's loop
BhForget(times, exp, threshold) ==
    IF exp.item \in DOMAIN times /\ times[exp.item] < threshold
    THEN MapRemove(times, exp.item)
    ELSE times

\* HeapCleanup::incremental_clean
RECURSIVE bh_incremental_clean(_, _)
bh_incremental_clean(self, threshold) ==
    LET exp == bh_peek(self.expiration_index)
    IN IF exp # NoExpiration /\ exp.time <= threshold
       THEN bh_incremental_clean(
                [self EXCEPT
                    !.expiration_times = BhForget(self.expiration_times, exp, threshold),
                    !.expiration_index = bh_pop(self.expiration_index)],
                threshold)
       ELSE self

\* an insert that records the expiry and forgets to push the record
BhInsertNoPush(self, item, duration) ==
    LET t == now(self.clock)
    IN [self EXCEPT
            !.clock = t,
            !.expiration_times = MapPut(self.expiration_times, item, t + duration)]

\* HeapCleanup::insert
bh_insert(self, item, duration) ==
    LET t == now(self.clock)
        time == t + duration
    IN [self EXCEPT
            !.clock = t,
            !.expiration_times = MapPut(self.expiration_times, item, time),
            !.expiration_index = bh_push(self.expiration_index, Expiration(time, item))]

\* HeapCleanup::contains, the state it leaves
bh_contains(self, item) ==
    LET t == now(self.clock)
    IN bh_incremental_clean([self EXCEPT !.clock = t], t)

\* HeapCleanup::contains, the bool it returns
bh_contains_ret(self, item) ==
    item \in DOMAIN bh_contains(self, item).expiration_times

BhInit ==
    /\ bh = BhDefault
    /\ bh_latest = NeverInserted
    /\ bh_obs = NoObs

\* m.insert(item, duration) on the BinaryHeap-backed set
BhInsert(item, duration) ==
    /\ bh' = bh_insert(bh, item, duration)
    /\ bh_latest' = [bh_latest EXCEPT ![item] = now(bh.clock) + duration]
    /\ bh_obs' = ObsInsert(item, now(bh.clock),
                            item \in DOMAIN bh.expiration_times,
                            now(bh.clock) + duration, bh_latest[item])

\* m.contains(item) on the BinaryHeap-backed set
BhContains(item) ==
    /\ bh' = bh_contains(bh, item)
    /\ bh_obs' = ObsContains(item, now(bh.clock), bh_contains_ret(bh, item), bh_latest,
                             Len(bh.expiration_index)
                             - Len(bh_contains(bh, item).expiration_index))
    /\ UNCHANGED bh_latest

\* m.clock.advance(duration) on the BinaryHeap-backed set
BhAdvance(duration) ==
    /\ bh' = [bh EXCEPT !.clock = advance(bh.clock, duration)]
    /\ bh_obs' = ObsAdvance(duration)
    /\ UNCHANGED bh_latest

(***************************************************************************)
(* redactor.rs: Redactor, a hash map of expiry times and nothing else      *)
(***************************************************************************)
\* Redactor::new
RdNew == [clock |-> ClockDefault, expiration_times |-> EmptyMap]

\* Redactor::insert
rd_insert(self, item, duration) ==
    LET t == now(self.clock)
    IN [self EXCEPT
            !.clock = t,
            !.expiration_times = MapPut(self.expiration_times, item, t + duration)]

\* Redactor::contains, the state it leaves: the clock is read in the Some
\* arm only
rd_contains(self, key) ==
    IF key \in DOMAIN self.expiration_times
    THEN [self EXCEPT !.clock = now(self.clock)]
    ELSE self

\* a contains with the comparison turned around: true from the expiry on
RdContainsRetFlipped(self, key) ==
    IF key \in DOMAIN self.expiration_times
    THEN now(self.clock) >= self.expiration_times[key]
    ELSE FALSE

\* Redactor::contains, the bool it returns
rd_contains_ret(self, key) ==
    IF key \in DOMAIN self.expiration_times
    THEN now(self.clock) < self.expiration_times[key]
    ELSE FALSE

RdInit ==
    /\ rd = RdNew
    /\ rd_latest = NeverInserted
    /\ rd_obs = NoObs

\* m.insert(item, duration) on the Redactor
RdInsert(item, duration) ==
    /\ rd' = rd_insert(rd, item, duration)
    /\ rd_latest' = [rd_latest EXCEPT ![item] = now(rd.clock) + duration]
    /\ rd_obs' = ObsInsert(item, now(rd.clock),
                            item \in DOMAIN rd.expiration_times,
                            now(rd.clock) + duration, rd_latest[item])

\* m.contains(key) on the Redactor; the obs has now = NoTime when the call
\* took no clock reading
RdContains(key) ==
    /\ rd' = rd_contains(rd, key)
    /\ rd_obs' = ObsContains(key,
                              IF key \in DOMAIN rd.expiration_times
                              THEN now(rd.clock) ELSE NoTime,
                              rd_contains_ret(rd, key), rd_latest, 0)
    /\ UNCHANGED rd_latest

\* m.clock.advance(duration) on the Redactor
RdAdvance(duration) ==
    /\ rd' = [rd EXCEPT !.clock = advance(rd.clock, duration)]
    /\ rd_obs' = ObsAdvance(duration)
    /\ UNCHANGED rd_latest

(***************************************************************************)
(* lib.rs: the expiring maps MonotonicImpl and IncrementalImpl, each on a  *)
(* FakeClock(Instant) whose now() returns the cursor and moves nothing     *)
(***************************************************************************)
\* FakeClock(Instant::now()), taken as the origin
LibEpoch == 0

\* the Strings the callers put
Values == {"foo", "bar"}

\* Option<&str>
None == [some |-> FALSE, value |-> ""]
Some(value) == [some |-> TRUE, value |-> value]

\* struct Wrapper
Wrapper(value, expiry) == [value |-> value, expiry |-> expiry]

\* lib.rs FakeClock::now: self.0
lib_now(clock) == clock

\* lib.rs FakeClock::advance: self.0 += duration
lib_advance(clock, duration) == clock + duration

\* MonotonicImpl::new
MonoNew == [key_map |-> EmptyMap, clock |-> LibEpoch]

\* MonotonicImpl::get
mono_get(self, key) ==
    IF key \notin DOMAIN self.key_map THEN None
    ELSE IF lib_now(self.clock) < self.key_map[key].expiry
         THEN Some(self.key_map[key].value)
    ELSE None

\* MonotonicImpl::put
mono_put(self, key, value, duration) ==
    [self EXCEPT
        !.key_map = MapPut(self.key_map, key,
                           Wrapper(value, lib_now(self.clock) + duration))]

\* IncrementalImpl::new
IncrNew == [key_map |-> EmptyMap, expiry_map |-> EmptyMap, clock |-> LibEpoch]

\* IncrementalImpl::incremental_clean
incr_incremental_clean(self, threshold) ==
    LET tmp == split_off(self.expiry_map, threshold)
        kept == SplitKeeps(self.expiry_map, threshold)
        \* mem::swap: expiry_map keeps the split-off part, tmp the rest
        expiry_map == tmp
        detached == kept
        ids == UNION {detached[k] : k \in DOMAIN detached}
    IN [self EXCEPT
            !.expiry_map = expiry_map,
            !.key_map = [x \in DOMAIN self.key_map \ ids |-> self.key_map[x]]]

\* IncrementalImpl::get, the state it leaves
incr_get(self, key) == incr_incremental_clean(self, lib_now(self.clock))

\* IncrementalImpl::get, the Option it returns
incr_get_ret(self, key) ==
    LET s1 == incr_get(self, key)
    IN IF key \in DOMAIN s1.key_map THEN Some(s1.key_map[key].value) ELSE None

\* IncrementalImpl::put; [self, panic]
incr_put(self, key, value, duration) ==
    LET expiry == lib_now(self.clock) + duration
        had == key \in DOMAIN self.key_map
        prev == self.key_map[key]
        s1 == [self EXCEPT !.key_map = MapPut(self.key_map, key, Wrapper(value, expiry))]
    IN IF had /\ prev.expiry \notin DOMAIN self.expiry_map
       THEN [self |-> s1, panic |-> "expect"]
       ELSE LET index == IF had THEN TrUnregister(self.expiry_map, prev.expiry, key)
                         ELSE self.expiry_map
            IN [self |-> [s1 EXCEPT !.expiry_map = TrRegister(index, expiry, key)],
                panic |-> "none"]

\* the ghost record of the operation the two maps were just given
LibNoObs ==
    [op |-> "new", key |-> NoTime, now |-> NoTime, mono_ret |-> None, incr_ret |-> None]

LibInit ==
    /\ mono = MonoNew
    /\ incr = IncrNew
    /\ lib_panic = "none"
    /\ lib_latest = EmptyMap
    /\ lib_obs = LibNoObs

\* m.put(key, value, duration) on both maps
LibPut(key, value, duration) ==
    IF lib_panic # "none" THEN UNCHANGED lib_vars
    ELSE LET r == incr_put(incr, key, value, duration)
         IN /\ mono' = mono_put(mono, key, value, duration)
            /\ incr' = r.self
            /\ lib_panic' = r.panic
            /\ lib_latest' = MapPut(lib_latest, key,
                                     Wrapper(value, lib_now(mono.clock) + duration))
            /\ lib_obs' = [LibNoObs EXCEPT !.op = "put", !.key = key,
                                           !.now = lib_now(mono.clock)]

\* m.get(key) on both maps
LibGet(key) ==
    IF lib_panic # "none" THEN UNCHANGED lib_vars
    ELSE /\ incr' = incr_get(incr, key)
         /\ lib_obs' = [op |-> "get", key |-> key, now |-> lib_now(mono.clock),
                        mono_ret |-> mono_get(mono, key),
                        incr_ret |-> incr_get_ret(incr, key)]
         /\ UNCHANGED <<mono, lib_panic, lib_latest>>

\* m.clock.advance(duration) on both maps
LibAdvance(duration) ==
    IF lib_panic # "none" THEN UNCHANGED lib_vars
    ELSE /\ mono' = [mono EXCEPT !.clock = lib_advance(mono.clock, duration)]
         /\ incr' = [incr EXCEPT !.clock = lib_advance(incr.clock, duration)]
         /\ lib_obs' = [LibNoObs EXCEPT !.op = "advance"]
         /\ UNCHANGED <<lib_panic, lib_latest>>

(***************************************************************************)
(* The ghost count of false answers since an id's last insert              *)
(***************************************************************************)
NotGone == [x \in Ids |-> 0]

GoneInit ==
    gone = [mh |-> NotGone, tr |-> NotGone, bh |-> NotGone, rd |-> NotGone]

\* the count after the operation obs records
GoneAfter(g, obs) ==
    IF obs.op = "insert" THEN [g EXCEPT ![obs.item] = 0]
    ELSE IF obs.op = "contains" /\ ~obs.ret
         THEN [g EXCEPT ![obs.item] = IF @ < 2 THEN @ + 1 ELSE @]
    ELSE g

(***************************************************************************)
(* Specifications                                                          *)
(***************************************************************************)
Init == HeapInit /\ MhInit /\ TrInit /\ BhInit /\ RdInit /\ GoneInit /\ LibInit

\* Spec: the MutHeap-backed set and the tree-backed set are given the same
\* operation at every step, each on its own FakeClock
SetInsert(item, duration) ==
    /\ mh.clock <= MaxClock - AutoAdvance
    /\ tr.clock <= MaxClock - AutoAdvance
    /\ MhInsert(item, duration)
    /\ TrInsert(item, duration)
    /\ UNCHANGED <<heap_vars, bh_vars, rd_vars, gone, lib_vars>>

SetContains(item) ==
    /\ mh.clock <= MaxClock - AutoAdvance
    /\ tr.clock <= MaxClock - AutoAdvance
    /\ MhContains(item)
    /\ TrContains(item)
    /\ UNCHANGED <<heap_vars, bh_vars, rd_vars, gone, lib_vars>>

SetAdvance(duration) ==
    /\ mh.clock <= MaxClock - duration
    /\ tr.clock <= MaxClock - duration
    /\ MhAdvance(duration)
    /\ TrAdvance(duration)
    /\ UNCHANGED <<heap_vars, bh_vars, rd_vars, gone, lib_vars>>

Next ==
    \/ \E item \in Ids, duration \in Ttls : SetInsert(item, duration)
    \/ \E item \in Ids : SetContains(item)
    \/ \E duration \in Ttls : SetAdvance(duration)

Spec == Init /\ [][Next]_vars

\* SpecBh: a caller of the BinaryHeap-backed set
BhCallInsert(item, duration) ==
    /\ bh.clock <= MaxClock - AutoAdvance
    /\ BhInsert(item, duration)
    /\ UNCHANGED <<heap_vars, mh_vars, tr_vars, rd_vars, gone, lib_vars>>

BhCallContains(item) ==
    /\ bh.clock <= MaxClock - AutoAdvance
    /\ BhContains(item)
    /\ UNCHANGED <<heap_vars, mh_vars, tr_vars, rd_vars, gone, lib_vars>>

BhCallAdvance(duration) ==
    /\ bh.clock <= MaxClock - duration
    /\ BhAdvance(duration)
    /\ UNCHANGED <<heap_vars, mh_vars, tr_vars, rd_vars, gone, lib_vars>>

BhNext ==
    \/ \E item \in Ids, duration \in Ttls : BhCallInsert(item, duration)
    \/ \E item \in Ids : BhCallContains(item)
    \/ \E duration \in Ttls : BhCallAdvance(duration)

SpecBh == Init /\ [][BhNext]_vars

\* SpecHeap: a caller of a MutHeap
HeapCallInsert(time) ==
    Insert(time) /\ UNCHANGED <<mh_vars, tr_vars, bh_vars, rd_vars, gone, lib_vars>>

HeapCallPopMax ==
    PopMax /\ UNCHANGED <<mh_vars, tr_vars, bh_vars, rd_vars, gone, lib_vars>>

HeapCallIncrement(handle, time) ==
    Increment(handle, time) /\ UNCHANGED <<mh_vars, tr_vars, bh_vars, rd_vars, gone, lib_vars>>

HeapCallDecrement(handle, time) ==
    Decrement(handle, time) /\ UNCHANGED <<mh_vars, tr_vars, bh_vars, rd_vars, gone, lib_vars>>

HeapNext ==
    \/ \E time \in Keys : HeapCallInsert(time)
    \/ HeapCallPopMax
    \/ \E handle \in handles, time \in Keys : HeapCallIncrement(handle, time)
    \/ \E handle \in handles, time \in Keys : HeapCallDecrement(handle, time)

SpecHeap == Init /\ [][HeapNext]_vars

\* SpecAll: the four sets are given the same operation at every step, each
\* on its own FakeClock
GoneStep ==
    gone' = [mh |-> IF mh_panic # "none" THEN gone.mh ELSE GoneAfter(gone.mh, mh_obs'),
             tr |-> IF tr_panic # "none" THEN gone.tr ELSE GoneAfter(gone.tr, tr_obs'),
             bh |-> GoneAfter(gone.bh, bh_obs'),
             rd |-> GoneAfter(gone.rd, rd_obs')]

ClocksBelow(limit) ==
    /\ mh.clock <= limit
    /\ tr.clock <= limit
    /\ bh.clock <= limit
    /\ rd.clock <= limit

AllInsert(item, duration) ==
    /\ ClocksBelow(MaxClock - AutoAdvance)
    /\ MhInsert(item, duration)
    /\ TrInsert(item, duration)
    /\ BhInsert(item, duration)
    /\ RdInsert(item, duration)
    /\ GoneStep
    /\ UNCHANGED <<heap_vars, lib_vars>>

AllContains(item) ==
    /\ ClocksBelow(MaxClock - AutoAdvance)
    /\ MhContains(item)
    /\ TrContains(item)
    /\ BhContains(item)
    /\ RdContains(item)
    /\ GoneStep
    /\ UNCHANGED <<heap_vars, lib_vars>>

AllAdvance(duration) ==
    /\ ClocksBelow(MaxClock - duration)
    /\ MhAdvance(duration)
    /\ TrAdvance(duration)
    /\ BhAdvance(duration)
    /\ RdAdvance(duration)
    /\ GoneStep
    /\ UNCHANGED <<heap_vars, lib_vars>>

AllNext ==
    \/ \E item \in AllIds, duration \in Ttls : AllInsert(item, duration)
    \/ \E item \in AllIds : AllContains(item)
    \/ \E duration \in Ttls : AllAdvance(duration)

SpecAll == Init /\ [][AllNext]_vars

\* SpecLib: the two maps of lib.rs are given the same operation at every
\* step, each on its own FakeClock
LibCallPut(key, value, duration) ==
    /\ LibPut(key, value, duration)
    /\ UNCHANGED <<heap_vars, mh_vars, tr_vars, bh_vars, rd_vars, gone>>

LibCallGet(key) ==
    /\ LibGet(key)
    /\ UNCHANGED <<heap_vars, mh_vars, tr_vars, bh_vars, rd_vars, gone>>

LibCallAdvance(duration) ==
    /\ mono.clock <= MaxClock - duration
    /\ incr.clock <= MaxClock - duration
    /\ LibAdvance(duration)
    /\ UNCHANGED <<heap_vars, mh_vars, tr_vars, bh_vars, rd_vars, gone>>

LibNext ==
    \/ \E key \in Ids, value \in Values, duration \in Ttls :
           LibCallPut(key, value, duration)
    \/ \E key \in Ids : LibCallGet(key)
    \/ \E duration \in Ttls : LibCallAdvance(duration)

SpecLib == Init /\ [][LibNext]_vars

(***************************************************************************)
(* Claims                                                                  *)
(***************************************************************************)
\* what the TtlSet contract makes of a contains call: true iff the id was
\* inserted and the call's clock reading is before its most recent expiry
Expected(obs) == obs.expiry # NoTime /\ obs.now < obs.expiry

\* C1: on the MutHeap-backed HeapCleanup every contains(x) returns true iff
\* x was inserted and the call's clock reading is strictly before the expiry
\* of the most recent insert(x, ttl).
C1_MhContainsIffUnexpired ==
    mh_obs.op = "contains" => (mh_obs.ret <=> Expected(mh_obs))

\* C2: on TreeCleanup every contains(x) returns true iff x was inserted and
\* the call's clock reading is strictly before the expiry of the most recent
\* insert(x, d); in particular it is false when the reading equals t0+d.
C2_TrContainsIffUnexpired ==
    tr_obs.op = "contains" => (tr_obs.ret <=> Expected(tr_obs))

\* C3: on the BinaryHeap-backed HeapCleanup every contains(x) returns true
\* iff x was inserted and the call's clock reading is strictly before the
\* expiry of the most recent insert(x, ttl).
C3_BhContainsIffUnexpired ==
    bh_obs.op = "contains" => (bh_obs.ret <=> Expected(bh_obs))

\* C4: driven by the same operations, the MutHeap-backed set and the tree
\* set return the same boolean from every contains call.
C4_MhTreeSameAnswers ==
    (mh_panic = "none" /\ tr_panic = "none" /\ mh_obs.op = "contains")
        => (mh_obs.item = tr_obs.item /\ mh_obs.ret = tr_obs.ret)

\* C5: no operation on the MutHeap-backed set aborts: neither the
\* stale-handle panic nor an out-of-bounds index is reachable.
C5_MhNeverPanics == mh_panic = "none"

\* the last operation on the directly driven heap was an increment or a
\* decrement
LastWasMutation == heap_last.op \in {"increment", "decrement"}

\* C6: increment(h, f) and decrement(h, f) through a handle whose item has
\* not been popped apply f to the item inserted when h was issued.
C6_HandleHitsOwnItem ==
    (LastWasMutation /\ heap_last.handle \notin popped)
        => heap_last.target = heap_last.handle

\* a <= b under Expiration::cmp
ExpLe(a, b) == ~ExpGt(a, b)

\* C7: peek_max returns an element that compares greatest among the held
\* elements, and None exactly when the heap is empty; every slot idx >= 1
\* compares <= the slot at idx/2.
C7_HeapMaxProperty ==
    /\ (heap_peek_max(heap) = NoExpiration) <=> (heap.items = <<>>)
    /\ \A i \in 1..Len(heap.items) :
           ExpLe(heap.items[i].item, heap_peek_max(heap))
    /\ \A idx \in 1..(HeapLen(heap) - 1) :
           ExpLe(At(heap.items, idx).item, At(heap.items, ParentIdx(idx)).item)

\* C8: an increment or decrement through the handle of a popped item aborts
\* with the stale-handle panic and leaves the heap as it was.
C8_PoppedHandlePanics ==
    [][(heap_last'.op \in {"increment", "decrement"} /\ heap_last'.handle \in popped)
          => (heap_panic' = "stale" /\ heap' = heap)]_vars

\* C6, both ways the code breaks it: the mutation aborts on an index out of
\* bounds, or it lands on another wrapper
C6_Aborts == heap_panic = "oob" /\ heap_last.handle \notin popped
C6_WrongItem ==
    /\ LastWasMutation /\ heap_panic = "none"
    /\ heap_last.handle \notin popped
    /\ heap_last.target # heap_last.handle

\* C7's case: a pop_max has left three or more items, not all equal
C7_Witness ==
    /\ heap_last.op = "pop_max"
    /\ HeapLen(heap) >= 3
    /\ \E i \in 1..Len(heap.items) : ExpGt(heap_peek_max(heap), heap.items[i].item)

\* C8's case: the handle of a popped item was used while the heap holds
\* other items, and the call panicked
C8_Witness ==
    /\ heap_panic = "stale"
    /\ heap_last.handle \in popped
    /\ heap.items # <<>>

\* the item ids of the records the MutHeap of mh holds
MhRecordIds ==
    {mh.expiration_index.items[i].item.item : i \in 1..Len(mh.expiration_index.items)}

\* C9: in the MutHeap-backed set the item ids of the records in
\* expiration_index are pairwise distinct and are exactly the keys of
\* expiration_times; there are as many records as ids in the hash index.
C9_MhOneRecordPerId ==
    LET items == mh.expiration_index.items
    IN /\ \A i, j \in 1..Len(items) :
              i # j => items[i].item.item # items[j].item.item
       /\ MhRecordIds = DOMAIN mh.expiration_times
       /\ Len(items) = Cardinality(DOMAIN mh.expiration_times)

\* C9's case: an id already in the hash index was inserted again while the
\* heap holds other records too
C9_Witness ==
    /\ mh_obs.op = "insert" /\ mh_obs.ret
    /\ mh_panic = "none"
    /\ HeapLen(mh.expiration_index) >= 2

\* the records expiration_index of bh holds for an id
BhRecordsOf(index, item) ==
    {index[i] : i \in {k \in 1..Len(index) : index[k].item = item}}

\* the number of records expiration_index of bh holds for an id
BhCountOf(index, item) ==
    Cardinality({k \in 1..Len(index) : index[k].item = item})

\* C10 as claimed: expiration_index of the BinaryHeap-backed set never holds
\* two records for the same item id.
C10_BhOneRecordPerId ==
    \A item \in Ids : BhCountOf(bh.expiration_index, item) <= 1

\* C10 as the code has it: every insert, also of an id already in
\* expiration_times, adds exactly one record to expiration_index, and
\* expiration_times holds one expiry for the id, the one this insert computed.
C10_BhInsertAddsOneRecord ==
    [][bh_obs'.op = "insert" =>
          /\ Len(bh'.expiration_index) = Len(bh.expiration_index) + 1
          /\ BhCountOf(bh'.expiration_index, bh_obs'.item)
                = BhCountOf(bh.expiration_index, bh_obs'.item) + 1
          /\ bh_obs'.item \in DOMAIN bh'.expiration_times
          /\ bh'.expiration_times[bh_obs'.item] = bh_obs'.expiry]_vars

\* C10's case: an id already in expiration_times was inserted again and
\* expiration_index holds two records for it
C10_Witness ==
    /\ bh_obs.op = "insert" /\ bh_obs.ret
    /\ BhCountOf(bh.expiration_index, bh_obs.item) >= 2

\* the expiry times of the records the MutHeap of mh holds
MhRecordTimes ==
    {mh.expiration_index.items[i].item.time : i \in 1..Len(mh.expiration_index.items)}

\* the expiry times the tree set has recorded, as bucket keys and as values
\* of expiration_times
TrRecordTimes ==
    DOMAIN tr.expiration_index
        \cup {tr.expiration_times[x] : x \in DOMAIN tr.expiration_times}

\* C11: on the MutHeap-backed set and on the tree set, a contains call whose
\* clock reading is strictly past every recorded expiry leaves the backing
\* structure and the hash index empty.
C11_CleanupConverges ==
    [][/\ (/\ mh_panic = "none" /\ mh_obs'.op = "contains"
           /\ \A t \in MhRecordTimes : t < mh_obs'.now)
              => (/\ mh'.expiration_index.items = <<>>
                  /\ DOMAIN mh'.expiration_times = {})
       /\ (/\ tr_panic = "none" /\ tr_obs'.op = "contains"
           /\ \A t \in TrRecordTimes : t < tr_obs'.now)
              => (/\ DOMAIN tr'.expiration_index = {}
                  /\ DOMAIN tr'.expiration_times = {})]_vars

\* C11's case: one contains call, made after every expiry had passed, took
\* two or more records out of each set and left both empty
C11_Witness ==
    /\ mh_panic = "none" /\ tr_panic = "none"
    /\ mh_obs.op = "contains" /\ mh_obs.swept >= 2
    /\ tr_obs.op = "contains" /\ tr_obs.swept >= 2
    /\ \A x \in Ids : mh_latest[x] < mh_obs.now /\ tr_latest[x] < tr_obs.now
    /\ mh.expiration_index.items = <<>> /\ DOMAIN mh.expiration_times = {}
    /\ DOMAIN tr.expiration_index = {} /\ DOMAIN tr.expiration_times = {}

\* C12: cleanup of the BinaryHeap-backed set never removes an id's current
\* entry: after a contains call, also one that popped superseded records,
\* every id whose most recent expiry is later than the call's clock reading
\* is in expiration_times with that expiry.
C12_BhKeepsCurrentEntry ==
    bh_obs.op = "contains" =>
        \A x \in Ids :
            bh_latest[x] > bh_obs.now =>
                /\ x \in DOMAIN bh.expiration_times
                /\ bh.expiration_times[x] = bh_latest[x]

\* C12's case: only one id was ever inserted, a contains call popped a
\* record of it, and the id is still in expiration_times because its most
\* recent expiry is later than the call's reading
C12_Witness ==
    /\ bh_obs.op = "contains" /\ bh_obs.swept >= 1
    /\ \E x \in Ids :
          /\ \A y \in Ids \ {x} : bh_latest[y] = NoTime
          /\ bh_latest[x] > bh_obs.now
          /\ x \in DOMAIN bh.expiration_times
          /\ BhCountOf(bh.expiration_index, x) >= 1

\* C13: after every completed insert, increment, decrement and pop_max on a
\* MutHeap, the position cell of the item in each slot holds that slot's
\* index, also for the item pop_max moves into the root.
C13_CellsHoldIndex ==
    heap_panic = "none" =>
        \A idx \in 0..(HeapLen(heap) - 1) :
            heap.cells[At(heap.items, idx).handle] = idx

\* C14: in the MutHeap-backed set the record at the root of expiration_index
\* (peek_max) has the earliest expiry of all records held, also after a
\* refresh to a later or an earlier expiry.
C14_MhRootIsEarliest ==
    mh_panic = "none" =>
        \A t \in MhRecordTimes : heap_peek_max(mh.expiration_index).time <= t

\* the buckets of the tree set that hold an id
TrBucketsOf(item) ==
    {k \in DOMAIN tr.expiration_index : item \in tr.expiration_index[k]}

\* C15: in the tree set every id in expiration_times is in exactly one
\* bucket of expiration_index, the one keyed by its recorded expiry; every
\* id in a bucket is a key of expiration_times; no bucket is empty; and the
\* expect in insert never fires.
C15_TrIndexConsistent ==
    /\ tr_panic = "none"
    /\ \A x \in DOMAIN tr.expiration_times :
           TrBucketsOf(x) = {tr.expiration_times[x]}
    /\ \A k \in DOMAIN tr.expiration_index :
           /\ tr.expiration_index[k] # {}
           /\ tr.expiration_index[k] \subseteq DOMAIN tr.expiration_times

\* C15's case: an id the set holds was inserted again with an expiry equal
\* to the one it had, and is in the bucket of that expiry
C15_Witness ==
    /\ tr_obs.op = "insert" /\ tr_obs.ret
    /\ tr_obs.prev = tr_obs.expiry
    /\ tr_obs.expiry \in DOMAIN tr.expiration_index
    /\ tr_obs.item \in tr.expiration_index[tr_obs.expiry]

\* the wrappers a heap holds
Wrappers(h) == {h.items[i] : i \in 1..Len(h.items)}

\* C16: pop_max on a non-empty MutHeap returns an element that compares
\* greatest among those held and removes exactly that element: the wrappers
\* left are the ones held before minus one wrapper of the returned element,
\* and the length drops by one; on an empty heap it returns None and leaves
\* the heap empty; a pop_max that follows a pop_max returns an element that
\* compares <= the one returned before.
C16_PopMaxRemovesGreatest ==
    [][heap_last'.op = "pop_max" =>
          IF heap.items = <<>>
          THEN heap_last'.ret = NoExpiration /\ heap'.items = <<>>
          ELSE /\ heap_last'.ret # NoExpiration
               /\ \A w \in Wrappers(heap) : ExpLe(w.item, heap_last'.ret)
               /\ HeapLen(heap') = HeapLen(heap) - 1
               /\ \E w \in Wrappers(heap) :
                      /\ w.item = heap_last'.ret
                      /\ Wrappers(heap') = Wrappers(heap) \ {w}
               /\ (heap_last.op = "pop_max" /\ heap_last.ret # NoExpiration)
                      => ExpLe(heap_last'.ret, heap_last.ret)]_vars

\* C16's case: a pop_max returned an element and left two or more, one of
\* them comparing strictly below the returned one
C16_Witness ==
    /\ heap_last.op = "pop_max" /\ heap_last.ret # NoExpiration
    /\ heap_panic = "none"
    /\ HeapLen(heap) >= 2
    /\ \E w \in Wrappers(heap) : ExpGt(heap_last.ret, w.item)

\* C17: in the BinaryHeap-backed set every id in expiration_times has at
\* least one record in expiration_index with that id and with time equal to
\* the expiry expiration_times holds for it.
C17_BhCurrentRecordQueued ==
    \A x \in DOMAIN bh.expiration_times :
        \E e \in BhRecordsOf(bh.expiration_index, x) :
            e.time = bh.expiration_times[x]

\* a contains(x) was just answered by a set that had answered false to
\* contains(x) since the last insert(x)
AskedAgain(obs_after, g) ==
    obs_after.op = "contains" /\ g[obs_after.item] >= 1

\* C18: in the Redactor, the BinaryHeap-backed set, the MutHeap-backed set
\* and the tree set, once contains(x) has returned false every later
\* contains(x) returns false until the next insert(x, ttl), whatever is
\* inserted under other ids and however the clock moves.
C18_NoResurrection ==
    [][/\ (mh_panic = "none" /\ AskedAgain(mh_obs', gone.mh)) => ~mh_obs'.ret
       /\ (tr_panic = "none" /\ AskedAgain(tr_obs', gone.tr)) => ~tr_obs'.ret
       /\ AskedAgain(bh_obs', gone.bh) => ~bh_obs'.ret
       /\ AskedAgain(rd_obs', gone.rd) => ~rd_obs'.ret]_vars

\* C18's case: every set has answered false twice to contains(x) for an id
\* x that was inserted once, the second time while it holds another id
C18_Witness ==
    /\ mh_panic = "none" /\ tr_panic = "none"
    /\ mh_obs.op = "contains"
    /\ \E x \in Ids :
          /\ mh_obs.item = x /\ rd_latest[x] # NoTime
          /\ gone.mh[x] = 2 /\ gone.tr[x] = 2 /\ gone.bh[x] = 2 /\ gone.rd[x] = 2
          /\ \E y \in Ids \ {x} :
                /\ y \in DOMAIN mh.expiration_times
                /\ y \in DOMAIN tr.expiration_times
                /\ y \in DOMAIN bh.expiration_times
                /\ y \in DOMAIN rd.expiration_times
                /\ rd_latest[y] > rd_latest[x]

\* a call on a set took the clock from cursor `before` to cursor `after` as
\* FakeClock does: insert and contains read now() once, which advances the
\* cursor by the quantum and returns the new cursor, later than the
\* reading of the operation before; advance(d) adds exactly d; the cursor
\* never decreases
ClockStep(obs_before, obs_after, before, after) ==
    /\ after >= before
    /\ obs_after.op \in {"insert", "contains"} =>
           /\ after = before + AutoAdvance
           /\ obs_after.now = after
           /\ obs_after.now > before
           /\ obs_after.now > obs_before.now
    /\ obs_after.op = "advance" => after = before + obs_after.by

\* a contains on the Redactor for an id that is not in its map: no clock
\* reading is taken and the cursor stays
RdSkipsClock(obs_after, before, after) ==
    /\ obs_after.op = "contains" /\ obs_after.now = NoTime
    /\ after = before

\* C19 as claimed: every now() advances the cursor by the quantum and
\* returns the new cursor, advance(d) adds exactly d, the cursor never
\* decreases, and so every insert and every contains on each of the four
\* sets observes a strictly later time than the operation before it.
C19_EveryCallReadsLater ==
    [][/\ mh_panic = "none" => ClockStep(mh_obs, mh_obs', mh.clock, mh'.clock)
       /\ tr_panic = "none" => ClockStep(tr_obs, tr_obs', tr.clock, tr'.clock)
       /\ ClockStep(bh_obs, bh_obs', bh.clock, bh'.clock)
       /\ ClockStep(rd_obs, rd_obs', rd.clock, rd'.clock)]_vars

\* C19 as the code has it: the same, except that a contains on the Redactor
\* reads the clock only when the id is in its map; for an id that is not,
\* it observes no time and leaves the cursor where it was.
C19_EveryReadIsLater ==
    [][/\ mh_panic = "none" => ClockStep(mh_obs, mh_obs', mh.clock, mh'.clock)
       /\ tr_panic = "none" => ClockStep(tr_obs, tr_obs', tr.clock, tr'.clock)
       /\ ClockStep(bh_obs, bh_obs', bh.clock, bh'.clock)
       /\ IF rd_obs'.op = "contains" /\ rd_obs'.item \notin DOMAIN rd.expiration_times
          THEN RdSkipsClock(rd_obs', rd.clock, rd'.clock)
          ELSE ClockStep(rd_obs, rd_obs', rd.clock, rd'.clock)]_vars

\* C19's case: the same contains was given to the four sets after some
\* inserts; the three indexed sets read a time later than their cursor was,
\* and the Redactor, not holding the id, read none and fell behind
C19_Witness ==
    /\ mh_panic = "none" /\ tr_panic = "none"
    /\ rd_obs.op = "contains" /\ rd_obs.now = NoTime
    /\ DOMAIN rd.expiration_times # {}
    /\ mh_obs.now = mh.clock /\ tr_obs.now = tr.clock /\ bh_obs.now = bh.clock
    /\ rd.clock > ClockDefault
    /\ rd.clock < bh.clock

\* what get(key) is to return at the reading `t`: Some(value of the most
\* recent put) iff t is strictly before that put's expiry
LibExpected(key, t) ==
    IF key \in DOMAIN lib_latest /\ t < lib_latest[key].expiry
    THEN Some(lib_latest[key].value)
    ELSE None

\* C20: given the same puts, gets and clock advances, IncrementalImpl.get
\* returns what MonotonicImpl.get returns: Some(value of the most recent put
\* for the key) iff the clock is strictly before that put's expiry, None
\* otherwise, also when the clock equals the expiry.
C20_IncrementalMatchesMonotonic ==
    (lib_panic = "none" /\ lib_obs.op = "get") =>
        /\ lib_obs.mono_ret = LibExpected(lib_obs.key, lib_obs.now)
        /\ lib_obs.incr_ret = lib_obs.mono_ret

\* MonotonicImpl.get alone follows the rule C20 states
MonotonicFollowsRule ==
    lib_obs.op = "get" => lib_obs.mono_ret = LibExpected(lib_obs.key, lib_obs.now)

====
